---- MODULE Spec2Model ----
(***************************************************************************)
(* Model of wwwroot/Scripts/geradorHorarios.py: generate_lp_file, the      *)
(* greedy first-fit allocation of sections (turmas) to rooms (salas) and   *)
(* contiguous period blocks, and the LP text it writes.                    *)
(*                                                                         *)
(* Conventions.  A decision variable x<t>_<s>_<p> is the triple <<t,s,p>>; *)
(* a room indicator z_<s> is the room id s.  A line of the LP file is a    *)
(* record [kind, a, b, c, vars, zs]: kind names the line's format string   *)
(* and a, b, c, vars, zs are the values substituted in it.  Python's       *)
(* 0-based indexes are kept 1-based here (start_period_index = si - 1).    *)
(***************************************************************************)
EXTENDS Integers, Sequences, FiniteSets, TLC

VARIABLES
    dados,                      \* loaded_data: the unpickled input relations
    pc,                         \* position in generate_lp_file
    ti,                         \* index in turma_set of the section being processed
    ri,                         \* index in salas_permitidas of the room being tried
    si,                         \* start index in periodos_ordenados being tried
    lp_estado,                  \* output file: "inexistente", "aberto", "fechado"
    lp_file,                    \* the lines written to the output file so far
    sala_periodos_ocupados,     \* (room, period) -> section
    docente_periodos_ocupados,  \* (teacher, period) -> section
    docente_periodo_vars,       \* insertion-ordered dict (teacher, period) -> variables
    sala_periodo_vars,          \* insertion-ordered dict (room, period) -> variables
    variables,                  \* set of created decision variables
    written_constraints,        \* set of per-section constraint lines written
    agendadas,                  \* section -> [sala, periodos] of each "agendada" log line
    solucao,                    \* parse_solution: the solution file and the pickle read
    vi,                         \* parse_solution: index of the 'variable' element in turn
    scheduled_classes,          \* parse_solution: the list of placements read
    used_rooms                  \* parse_solution: the set of rooms read

\* the state of parse_solution (solution_reader.py)
leitor == <<solucao, vi, scheduled_classes, used_rooms>>

vars == <<dados, pc, ti, ri, si, lp_estado, lp_file, sala_periodos_ocupados,
          docente_periodos_ocupados, docente_periodo_vars, sala_periodo_vars,
          variables, written_constraints, agendadas, leitor>>

------------------------------------------------------------------------------
(* Bounds of the explored inputs.                                          *)

MaxTurmas == 2

MaxPeriodo == 3

------------------------------------------------------------------------------
(* Generic helpers: Python built-ins used by the code.                     *)

Range(seq) == {seq[i] : i \in DOMAIN seq}

Min(S) == CHOOSE x \in S : \A y \in S : x <= y

RECURSIVE Sorted(_)
\* sorted(...) of a collection of distinct integers
Sorted(S) == IF S = {} THEN <<>> ELSE <<Min(S)>> \o Sorted(S \ {Min(S)})

\* Series.unique(): the distinct values in order of first appearance
Unique(seq) ==
    LET primeiras == Sorted({i \in DOMAIN seq : \A j \in 1..(i - 1) : seq[j] # seq[i]})
    IN  [k \in DOMAIN primeiras |-> seq[primeiras[k]]]

RECURSIVE Flatten(_)
Flatten(ss) == IF ss = <<>> THEN <<>> ELSE Head(ss) \o Flatten(Tail(ss))

(* list(set(...)) of integers: the iteration order of a CPython set, an    *)
(* open-addressing hash table of 8 slots (growing when it is 3/5 full).    *)
(* A slot is <<>> when unused and <<key>> when it holds a key.             *)

\* hash(key) of an integer below 2^61 - 1 in absolute value: the integer itself,
\* and -2 for -1
Hash(key) == IF key = -1 THEN -2 ELSE key

\* h >> 5k, keeping the sign, of a hash below 2^35 in absolute value
Shift(h, k) == IF k >= 7 THEN (IF h < 0 THEN -1 ELSE 0) ELSE h \div (32 ^ k)

\* 2^e modulo size, a power of two up to 2^30
Pow2Mod(e, size) == IF e >= 30 THEN 0 ELSE (2 ^ e) % size

\* perturb after k times perturb >>= PERTURB_SHIFT, modulo the table size: perturb
\* is the hash as a 64-bit unsigned integer, 2^64 + hash for a negative hash
Perturb(hash, k, size) ==
    IF hash >= 0 THEN Shift(hash, k) % size
    ELSE IF 5 * k > 64 THEN 0
    ELSE (Pow2Mod(64 - 5 * k, size) + Shift(hash, k)) % size

RECURSIVE LinearScan(_, _, _, _)
LinearScan(tab, key, j, probes) ==
    IF tab[j] = <<>> \/ tab[j] = <<key>> THEN j
    ELSE IF probes = 0 THEN -1
    ELSE LinearScan(tab, key, j + 1, probes - 1)

RECURSIVE FindSlot(_, _, _, _, _)
\* the slot of the key, or the unused slot it goes to: i is the slot probed and k
\* the number of shifts of perturb so far
FindSlot(tab, mask, key, i, k) ==
    LET probes == IF i + 9 <= mask THEN 9 ELSE 0
        j == LinearScan(tab, key, i, probes)
    IN  IF j # -1 THEN j
        ELSE FindSlot(tab, mask, key,
                      (i * 5 + 1 + Perturb(Hash(key), k + 1, mask + 1)) % (mask + 1),
                      k + 1)

TableKeys(tab, mask) ==
    LET usados == SelectSeq([i \in 1..(mask + 1) |-> tab[i - 1]], LAMBDA e : e # <<>>)
    IN  [i \in DOMAIN usados |-> usados[i][1]]

RECURSIVE InsertAll(_, _, _)
\* the table of the given size after the first n keys are put in it in turn
InsertAll(size, keys, n) ==
    IF n = 0 THEN [i \in 0..(size - 1) |-> <<>>]
    ELSE LET tab == InsertAll(size, keys, n - 1)
             j   == FindSlot(tab, size - 1, keys[n], Hash(keys[n]) % size, 0)
         IN  [tab EXCEPT ![j] = <<keys[n]>>]

RECURSIVE GrownSize(_, _)
GrownSize(size, minused) ==
    IF size <= minused THEN GrownSize(size * 2, minused) ELSE size

set_add(st, key) ==
    LET j == FindSlot(st.tab, st.mask, key, Hash(key) % (st.mask + 1), 0)
    IN  IF st.tab[j] = <<key>> THEN st
        ELSE LET tab1 == [st.tab EXCEPT ![j] = <<key>>]
                 fill1 == st.fill + 1
             IN  IF fill1 * 5 < st.mask * 3
                 THEN [tab |-> tab1, mask |-> st.mask, fill |-> fill1]
                 ELSE LET size == GrownSize(8, IF fill1 > 50000 THEN fill1 * 2
                                             ELSE fill1 * 4)
                      IN  [tab  |-> InsertAll(size, TableKeys(tab1, st.mask), fill1),
                           mask |-> size - 1,
                           fill |-> fill1]

RECURSIVE set_update(_, _)
\* set_add of the first n entries of seq in turn, on an empty set
set_update(seq, n) ==
    IF n = 0 THEN [tab |-> [i \in 0..7 |-> <<>>], mask |-> 7, fill |-> 0]
    ELSE LET st == set_update(seq, n - 1)
         IN  IF st.fill >= 0 THEN set_add(st, seq[n]) ELSE st

ListOfSet(seq) ==
    LET st == set_update(seq, Len(seq))
    IN  TableKeys(st.tab, st.mask)

------------------------------------------------------------------------------
(* Names as text.  A name is the sequence of its character codes           *)
(* ('0'..'9' = 48..57, '_' = 95, 'x' = 120, 'z' = 122), so that sorted()   *)
(* over names orders them as Python orders strings.                        *)

RECURSIVE Digits(_)
\* f"{int(n)}"
Digits(n) ==
    IF n < 0 THEN <<45>> \o Digits(0 - n)
    ELSE IF n < 10 THEN <<48 + n>>
    ELSE Digits(n \div 10) \o <<48 + (n % 10)>>

\* f"x{int(turma_id)}_{int(sala_id)}_{int(period_id)}"
NomeX(v) == <<120>> \o Digits(v[1]) \o <<95>> \o Digits(v[2]) \o <<95>> \o Digits(v[3])

\* f"z_{int(sala_id)}"
NomeZ(s) == <<122, 95>> \o Digits(s)

RECURSIVE StrLess(_, _)
StrLess(a, b) ==
    IF b = <<>> THEN FALSE
    ELSE IF a = <<>> THEN TRUE
    ELSE IF Head(a) # Head(b) THEN Head(a) < Head(b)
    ELSE StrLess(Tail(a), Tail(b))

\* sorted(S) of a set of names
SortedStr(S) ==
    [i \in 1..Cardinality(S) |->
        CHOOSE x \in S : Cardinality({y \in S : StrLess(y, x)}) = i - 1]

Linha(kind, a, b, c, vs, zs) ==
    [kind |-> kind, a |-> a, b |-> b, c |-> c, vars |-> vs, zs |-> zs]

------------------------------------------------------------------------------
(* The lookups generate_lp_file derives from the input relations.          *)

\* the mutual-exclusion table between curricular units
restricoes_entre_ucs ==
    [uc \in {3, 5, 11, 13, 14, 15, 22, 23} |->
        CASE uc = 3  -> <<5>>
          [] uc = 5  -> <<3>>
          [] uc = 11 -> <<13, 14, 15>>
          [] uc = 13 -> <<11>>
          [] uc = 14 -> <<11>>
          [] uc = 15 -> <<11>>
          [] uc = 22 -> <<23>>
          [] uc = 23 -> <<22>>]

\* dict(zip(rows['id'], rows[...])): the last row of a key wins
LastRow(rows, k) ==
    LET I == {i \in DOMAIN rows : rows[i].id = k}
    IN  rows[CHOOSE i \in I : \A j \in I : j <= i]

\* uc_semestre: defined on the ids of unidades_curriculares (.get gives None elsewhere)
uc_semestre_keys == {dados.unidades_curriculares.rows[i].id :
                        i \in DOMAIN dados.unidades_curriculares.rows}

uc_semestre(uc) == LastRow(dados.unidades_curriculares.rows, uc).semestre

turma_set == Sorted(Range([i \in DOMAIN dados.turmas |-> dados.turmas[i].id]))

turma_docente(t) == LastRow(dados.turmas, t).docente_id

turma_duracao(t) == LastRow(dados.turmas, t).duracao

turma_tipo(t) == LastRow(dados.turmas, t).tipo_aula_id

turma_uc(t) == LastRow(dados.turmas, t).unidade_curricular_id

turma_label(t) == LastRow(dados.turmas, t).turma_label_id

\* the sala_id column of the uc_sala rows of a curricular unit
SalasDaUC(uc) ==
    LET rows == SelectSeq(dados.uc_sala, LAMBDA r : r.unidade_curricular_id = uc)
    IN  [i \in DOMAIN rows |-> rows[i].sala_id]

turma_sala(t) == ListOfSet(SalasDaUC(turma_uc(t)))

\* the periods of the rows of the section's teacher; a missing teacher is NaN,
\* which no docente_id of the table equals
I_d_turma(t) ==
    LET rows == SelectSeq(dados.indisponibilidade_docente,
                          LAMBDA r : ~LastRow(dados.turmas, t).docente_nan
                                     /\ r.docente_id = turma_docente(t))
    IN  [i \in DOMAIN rows |-> rows[i].periodo_horario_id]

\* turmas[turmas['unidade_curricular_id'] == uc]['id'].tolist()
TurmasDaUC(uc) ==
    LET rows == SelectSeq(dados.turmas, LAMBDA r : r.unidade_curricular_id = uc)
    IN  [i \in DOMAIN rows |-> rows[i].id]

periodos_ordenados == Sorted(Range(dados.periodos))

------------------------------------------------------------------------------
(* The candidate examined by the allocation search and its checks.         *)

turma_atual == turma_set[ti]

salas_permitidas == turma_sala(turma_atual)

\* range(len(periodos_ordenados) - duracao + 1)
NumJanelas(duracao) ==
    IF Len(periodos_ordenados) - duracao + 1 > 0
    THEN Len(periodos_ordenados) - duracao + 1 ELSE 0

\* periodos_ordenados[start_period_index:start_period_index + duracao], a Python
\* slice: a negative stop counts from the end of the list and both ends are clipped
\* to the list (i is the start index counted from 1)
Janela(i, duracao) ==
    LET n    == Len(periodos_ordenados)
        stop == i - 1 + duracao
        fim  == IF stop < 0 THEN (IF stop + n < 0 THEN 0 ELSE stop + n)
                ELSE IF stop > n THEN n ELSE stop
    IN  SubSeq(periodos_ordenados, i, fim)

\* all(seq[i] + 1 == seq[i + 1] for i in range(duracao - 1))
Consecutivos(seq, duracao) == \A i \in 1..(duracao - 1) : seq[i] + 1 = seq[i + 1]

\* SalaOcupada with the room check left out
SalaOcupadaNunca(s, seq) == FALSE

SalaOcupada(s, seq) ==
    \E i \in DOMAIN seq : <<s, seq[i]>> \in DOMAIN sala_periodos_ocupados

\* DocenteIndisponivel looking at the first period of the window only
DocenteIndisponivelPrimeiro(t, seq) ==
    seq # <<>> /\ seq[1] \in Range(I_d_turma(t))

DocenteIndisponivel(t, seq) ==
    \E i \in DOMAIN seq : seq[i] \in Range(I_d_turma(t))

\* DocenteOcupado with the test of the teacher's occupancy left out
DocenteOcupadoNunca(t, seq) == FALSE

DocenteOcupado(t, seq) ==
    \E i \in DOMAIN seq :
        <<turma_docente(t), seq[i]>> \in DOMAIN docente_periodos_ocupados

\* ConflitoSemestre reading the (room, period) key as (period, room)
ConflitoSemestreChaveTrocada(t, seq) ==
    /\ turma_label(t) = 1
    /\ \E i \in DOMAIN seq : \E k \in DOMAIN sala_periodos_ocupados :
          /\ k[1] = seq[i]
          /\ turma_uc(sala_periodos_ocupados[k]) \in uc_semestre_keys
          /\ uc_semestre(turma_uc(sala_periodos_ocupados[k])) = uc_semestre(turma_uc(t))

\* the label_id = 1 rule: a section of the same semester already sits in a period
ConflitoSemestre(t, seq) ==
    /\ turma_label(t) = 1
    /\ \E i \in DOMAIN seq : \E k \in DOMAIN sala_periodos_ocupados :
          /\ k[2] = seq[i]
          /\ turma_uc(sala_periodos_ocupados[k]) \in uc_semestre_keys
          /\ uc_semestre(turma_uc(sala_periodos_ocupados[k])) = uc_semestre(turma_uc(t))

\* the restricoes_entre_ucs rule: a section of a restricted unit already sits in a period
ConflitoEntreUCs(t, seq) ==
    /\ turma_uc(t) \in DOMAIN restricoes_entre_ucs
    /\ \E u \in Range(restricoes_entre_ucs[turma_uc(t)]) :
       \E tr \in Range(TurmasDaUC(u)) :
       \E i \in DOMAIN seq :
       \E sr \in Range(dados.salas) :
          /\ <<sr, seq[i]>> \in DOMAIN sala_periodos_ocupados
          /\ sala_periodos_ocupados[<<sr, seq[i]>>] = tr

\* the section's row has no teacher: docente_id is NaN (the row's docente_nan)
DocenteEmFalta(t) == LastRow(dados.turmas, t).docente_nan

\* int(docente_id) is reached, in the third any() of the test of lines 164-166, and
\* raises: the window is consecutive, the room free and the teacher "not unavailable"
ErroDocente(t, s, seq) ==
    /\ Consecutivos(seq, turma_duracao(t))
    /\ ~SalaOcupada(s, seq)
    /\ ~DocenteIndisponivel(t, seq)
    /\ seq # <<>>
    /\ DocenteEmFalta(t)

\* a candidate (section, room, window) survives every check of the search loop
Aceite(t, s, seq) ==
    /\ Consecutivos(seq, turma_duracao(t))
    /\ ~SalaOcupada(s, seq)
    /\ ~DocenteIndisponivel(t, seq)
    /\ ~DocenteOcupado(t, seq)
    /\ ~ConflitoSemestre(t, seq)
    /\ ~ConflitoEntreUCs(t, seq)

------------------------------------------------------------------------------
(* What a commit records and writes.                                       *)

uc_variables(t, s, seq) == [i \in DOMAIN seq |-> <<t, s, seq[i]>>]

\* d[key] = t for every key
Ocupar(d, keys, t) ==
    [k \in DOMAIN d \cup keys |-> IF k \in keys THEN t ELSE d[k]]

\* d.setdefault(key, []).append(v) on an insertion-ordered dict
SetDefaultAppend(d, key, v) ==
    IF \E i \in DOMAIN d : d[i].key = key
    THEN [i \in DOMAIN d |->
             IF d[i].key = key THEN [d[i] EXCEPT !.vars = Append(@, v)] ELSE d[i]]
    ELSE Append(d, [key |-> key, vars |-> <<v>>])

RECURSIVE RegistarVars(_, _, _)
\* SetDefaultAppend for each variable in turn, under the key <<a, period of the variable>>
RegistarVars(d, a, vs) ==
    IF vs = <<>> THEN d
    ELSE RegistarVars(SetDefaultAppend(d, <<a, Head(vs)[3]>>, Head(vs)), a, Tail(vs))

RECURSIVE EscreverNovas(_, _, _)
\* lp_file.write(c) and written_constraints.add(c) for each c not yet written
EscreverNovas(file, written, lines) ==
    IF lines = <<>> THEN [file |-> file, written |-> written]
    ELSE IF Head(lines) \in written THEN EscreverNovas(file, written, Tail(lines))
    ELSE EscreverNovas(Append(file, Head(lines)), written \cup {Head(lines)}, Tail(lines))

\* LinhasCont tying each variable to the one before it instead of to the first
LinhasContEncadeadas(vs) ==
    [k \in 1..(Len(vs) - 1) |-> Linha("cont", 0, 0, 0, <<vs[k], vs[k + 1]>>, <<>>)]

\* cont_<v1>_<vk>: <v1> - <vk> = 0, for each variable after the first
LinhasCont(vs) ==
    [k \in 1..(Len(vs) - 1) |-> Linha("cont", 0, 0, 0, <<vs[1], vs[k + 1]>>, <<>>)]

\* turma_<t>_agendada: <vars> = <duracao>
LinhaAgendada(t, vs) == Linha("turma_agendada", t, 0, turma_duracao(t), vs, <<>>)

\* sala_<s>_uso_para_turma_<t>: <vars> - <duracao> z_<s> <= 0
LinhaSalaUso(t, s, vs) == Linha("sala_uso_para_turma", s, t, turma_duracao(t), vs, <<s>>)

LinhasDaTurma(t, s, vs) ==
    IF vs = <<>> THEN <<>>
    ELSE LinhasCont(vs) \o <<LinhaAgendada(t, vs), LinhaSalaUso(t, s, vs)>>

------------------------------------------------------------------------------
(* The global constraints written after the per-section pass.              *)

\* [f"x{turma_id}_{sala_id}_{int(p)}" for turma_id in turmas_uc for sala_id in salas['id']]
VarsUCPeriodo(uc, p) ==
    LET ts == TurmasDaUC(uc)
    IN  Flatten([i \in DOMAIN ts |->
                    [j \in DOMAIN dados.salas |-> <<ts[i], dados.salas[j], p>>]])

\* the pairs of units of the five restricao_UC<a>_UC<b>_periodo_<p> blocks, in order
ParesRestricao == <<<<3, 5>>, <<11, 13>>, <<11, 14>>, <<11, 15>>, <<22, 23>>>>

\* LinhasRestricaoPeriodo summing the variables of the first unit of a pair only
LinhasRestricaoPeriodoPrimeira(p) ==
    LET todas == [k \in DOMAIN ParesRestricao |->
                    Linha("restricao", ParesRestricao[k][1], ParesRestricao[k][2], p,
                          VarsUCPeriodo(ParesRestricao[k][1], p), <<>>)]
    IN  SelectSeq(todas, LAMBDA l : l.vars # <<>>)

LinhasRestricaoPeriodo(p) ==
    LET todas == [k \in DOMAIN ParesRestricao |->
                    Linha("restricao", ParesRestricao[k][1], ParesRestricao[k][2], p,
                          VarsUCPeriodo(ParesRestricao[k][1], p)
                              \o VarsUCPeriodo(ParesRestricao[k][2], p),
                          <<>>)]
    IN  SelectSeq(todas, LAMBDA l : l.vars # <<>>)

LinhasRestricoes ==
    LET ps == Unique(dados.periodos)
    IN  Flatten([k \in DOMAIN ps |-> LinhasRestricaoPeriodo(ps[k])])

\* uc_groups: the units in order of first appearance, each with its early and late sections
LinhasOrdem ==
    LET ids   == Unique([i \in DOMAIN dados.turmas |-> dados.turmas[i].id])
        ucs   == Unique([i \in DOMAIN ids |-> turma_uc(ids[i])])
        early(uc) == SelectSeq(ids, LAMBDA t : turma_uc(t) = uc /\ turma_tipo(t) \in {1, 2})
        late(uc)  == SelectSeq(ids, LAMBDA t : turma_uc(t) = uc /\ turma_tipo(t) \notin {1, 2})
    IN  Flatten([u \in DOMAIN ucs |->
            Flatten([e \in DOMAIN early(ucs[u]) |->
                [l \in DOMAIN late(ucs[u]) |->
                    Linha("ordem_uc", ucs[u], early(ucs[u])[e], late(ucs[u])[l],
                          <<>>, <<>>)]])])

\* int(var.split('_')[0][1:]): the section id read back from a variable's name, the
\* digits after 'x' and a '-' sign (45) up to the first '_' (95)
TurmaDoNome(nome) ==
    LET fim == CHOOSE k \in 1..(Len(nome) + 1) :
                  /\ k = Len(nome) + 1 \/ nome[k] = 95
                  /\ \A j \in 1..(k - 1) : nome[j] # 95
        neg == fim > 2 /\ nome[2] = 45
        ini == IF neg THEN 3 ELSE 2
        ValorDe[k \in 1..(Len(nome) + 1)] ==
            IF k < ini THEN 0 ELSE ValorDe[k - 1] * 10 + (nome[k] - 48)
    IN  IF neg THEN 0 - ValorDe[fim - 1] ELSE ValorDe[fim - 1]

\* the <key>_conflito lines of one of the two dicts of variables
LinhasConflito(kind, d) ==
    LET filtradas(vs) ==
            SelectSeq(vs, LAMBDA v : turma_uc(TurmaDoNome(NomeX(v))) \notin {24, 25})
        com == SelectSeq(d, LAMBDA e : Len(e.vars) > 1 /\ Len(filtradas(e.vars)) > 1)
    IN  [i \in DOMAIN com |->
            Linha(kind, com[i].key[1], com[i].key[2], 0, filtradas(com[i].vars), <<>>)]

\* LinhasBinary declaring every variable a written constraint names
LinhasBinaryTodas ==
    LET todas == UNION {Range(lp_file[i].vars) : i \in DOMAIN lp_file}
        xs == SortedStr({NomeX(v) : v \in todas})
        zs == SortedStr({NomeZ(z) : z \in Range(dados.salas)})
    IN  <<Linha("binary", 0, 0, 0, <<>>, <<>>)>>
        \o [i \in DOMAIN xs |->
               Linha("bin_x", 0, 0, 0, <<CHOOSE v \in todas : NomeX(v) = xs[i]>>, <<>>)]
        \o [i \in DOMAIN zs |->
               Linha("bin_z", 0, 0, 0, <<>>,
                     <<CHOOSE z \in Range(dados.salas) : NomeZ(z) = zs[i]>>)]
        \o <<Linha("end", 0, 0, 0, <<>>, <<>>)>>

\* the Binary block: sorted(variables), sorted(z_variables), End
LinhasBinary ==
    LET xs == SortedStr({NomeX(v) : v \in variables})
        zs == SortedStr({NomeZ(z) : z \in Range(dados.salas)})
    IN  <<Linha("binary", 0, 0, 0, <<>>, <<>>)>>
        \o [i \in DOMAIN xs |->
               Linha("bin_x", 0, 0, 0, <<CHOOSE v \in variables : NomeX(v) = xs[i]>>, <<>>)]
        \o [i \in DOMAIN zs |->
               Linha("bin_z", 0, 0, 0, <<>>,
                     <<CHOOSE z \in Range(dados.salas) : NomeZ(z) = zs[i]>>)]
        \o <<Linha("end", 0, 0, 0, <<>>, <<>>)>>

------------------------------------------------------------------------------
(* The inputs explored: small relations over a few ids.                    *)
(* Units 3 and 5 exclude each other, unit 24 excludes nothing.  Teacher 1  *)
(* is unavailable in period 2, teacher 2 in period 3.  In the first        *)
(* eligibility table unit 3 may use rooms 1 and 8, unit 5 rooms 1 and 2,   *)
(* unit 24 room 1; in the second, units 3 and 5 share room 1 and unit 24   *)
(* has no room.  The room table holds the rooms 1, 2, 8 or room 1 alone.   *)

Docentes == {1, 2}

Duracoes == {1, 2}

\* (unit, turma_label_id) of a row: theoretical of 3, practical of 5, theoretical of 24
UCLabels == {<<3, 1>>, <<5, 2>>, <<24, 1>>}

\* the rows a section table may hold for the section id
TurmaLinhas(id) ==
    {[id |-> id, unidade_curricular_id |-> ul[1], docente_id |-> d, docente_nan |-> FALSE,
      tipo_aula_id |-> IF ul[2] = 1 THEN 1 ELSE 3, duracao |-> dur,
      turma_label_id |-> ul[2]] :
        ul \in UCLabels, d \in Docentes, dur \in Duracoes}

\* section tables of n rows with the ids 1..n, stored in descending id order
TabelasTurmas ==
    UNION {{[i \in 1..n |-> f[n + 1 - i]] :
                f \in {g \in [1..n -> UNION {TurmaLinhas(id) : id \in 1..n}] :
                          \A i \in 1..n : g[i].id = i}} : n \in 1..MaxTurmas}

\* the period ids 1..MaxPeriodo, and the same without period 2 (a gap in the ids)
TabelasPeriodos ==
    {Sorted(1..MaxPeriodo), Sorted((1..MaxPeriodo) \ {2})}

TabelasSalas == {<<1, 2, 8>>, <<1>>}

UCSala(uc, s) == [unidade_curricular_id |-> uc, sala_id |-> s]

TabelasUCSala ==
    {<<UCSala(3, 1), UCSala(3, 8), UCSala(5, 1), UCSala(5, 2), UCSala(24, 1)>>,
     <<UCSala(3, 1), UCSala(5, 1)>>}

Indisp(d, p) == [docente_id |-> d, periodo_horario_id |-> p]

TabelasIndisponibilidade == {<<Indisp(1, 2), Indisp(2, 3)>>}

UCLinha(uc, sem) == [id |-> uc, semestre |-> sem]

\* every unit in semester 1; or unit 5 in semester 2 and unit 24 without a row
TabelasUCs ==
    {[presente |-> TRUE, tem_semestre |-> TRUE,
      rows |-> <<UCLinha(3, 1), UCLinha(5, 1), UCLinha(24, 1)>>],
     [presente |-> TRUE, tem_semestre |-> TRUE,
      rows |-> <<UCLinha(3, 1), UCLinha(5, 2)>>]}

\* no 'unidades_curriculares' relation; or one without the 'semestre' column
TabelasUCsEmFalta ==
    {[presente |-> FALSE, tem_semestre |-> FALSE, rows |-> <<>>],
     [presente |-> TRUE, tem_semestre |-> FALSE, rows |-> <<>>]}

Entradas ==
    [turmas : TabelasTurmas, salas : TabelasSalas, periodos : TabelasPeriodos,
     uc_sala : TabelasUCSala, indisponibilidade_docente : TabelasIndisponibilidade,
     unidades_curriculares : TabelasUCs]
    \cup
    [turmas : {t \in TabelasTurmas : Len(t) = 1}, salas : {<<1>>},
     periodos : {Sorted(1..MaxPeriodo)}, uc_sala : {<<UCSala(3, 1)>>},
     indisponibilidade_docente : {<<>>}, unidades_curriculares : TabelasUCsEmFalta]

------------------------------------------------------------------------------
(* generate_lp_file as a state machine.                                    *)

Init ==
    /\ dados \in Entradas
    /\ pc = "inicio"
    /\ ti = 0
    /\ ri = 0
    /\ si = 0
    /\ lp_estado = "inexistente"
    /\ lp_file = <<>>
    /\ sala_periodos_ocupados = <<>>
    /\ docente_periodos_ocupados = <<>>
    /\ docente_periodo_vars = <<>>
    /\ sala_periodo_vars = <<>>
    /\ variables = {}
    /\ written_constraints = {}
    /\ agendadas = <<>>
    /\ solucao = <<>>
    /\ vi = 0
    /\ scheduled_classes = <<>>
    /\ used_rooms = {}

alocacao == <<sala_periodos_ocupados, docente_periodos_ocupados, docente_periodo_vars,
              sala_periodo_vars, variables, written_constraints, agendadas>>

\* 'unidades_curriculares' is not in the pickle: log and return
SemUnidadesCurriculares ==
    /\ pc = "inicio"
    /\ ~dados.unidades_curriculares.presente
    /\ pc' = "abortado"
    /\ UNCHANGED <<leitor, dados, ti, ri, si, lp_estado, lp_file, alocacao>>

\* SemColunaSemestre with the column tested after the output file is opened
SemColunaSemestreAposAbrir ==
    /\ pc = "inicio"
    /\ dados.unidades_curriculares.presente
    /\ ~dados.unidades_curriculares.tem_semestre
    /\ lp_estado' = "fechado"
    /\ lp_file' = <<Linha("obj", 0, 0, 0, <<>>, dados.salas),
                    Linha("subject_to", 0, 0, 0, <<>>, <<>>)>>
    /\ pc' = "abortado"
    /\ UNCHANGED <<leitor, dados, ti, ri, si, alocacao>>

\* 'unidades_curriculares' has no 'semestre' column: log and return
SemColunaSemestre ==
    /\ pc = "inicio"
    /\ dados.unidades_curriculares.presente
    /\ ~dados.unidades_curriculares.tem_semestre
    /\ pc' = "abortado"
    /\ UNCHANGED <<leitor, dados, ti, ri, si, lp_estado, lp_file, alocacao>>

\* open(output_file, 'w'), write the objective and "Subject To"
AbrirLP ==
    /\ pc = "inicio"
    /\ dados.unidades_curriculares.presente
    /\ dados.unidades_curriculares.tem_semestre
    /\ lp_estado' = "aberto"
    /\ lp_file' = <<Linha("obj", 0, 0, 0, <<>>, dados.salas),
                    Linha("subject_to", 0, 0, 0, <<>>, <<>>)>>
    /\ ti' = 1
    /\ pc' = "turma"
    /\ UNCHANGED <<leitor, dados, ri, si, alocacao>>

\* the section's unit has no semester: warn and continue with the next section
SaltarSemSemestre ==
    /\ pc = "turma"
    /\ ti <= Len(turma_set)
    /\ turma_uc(turma_atual) \notin uc_semestre_keys
    /\ ti' = ti + 1
    /\ UNCHANGED <<leitor, dados, pc, ri, si, lp_estado, lp_file, alocacao>>

\* the section has no permitted room: warn and continue with the next section
SaltarSemSalas ==
    /\ pc = "turma"
    /\ ti <= Len(turma_set)
    /\ turma_uc(turma_atual) \in uc_semestre_keys
    /\ salas_permitidas = <<>>
    /\ ti' = ti + 1
    /\ UNCHANGED <<leitor, dados, pc, ri, si, lp_estado, lp_file, alocacao>>

\* IniciarProcura with the start indexes beginning at the second window
IniciarProcuraSegunda ==
    /\ pc = "turma"
    /\ ti <= Len(turma_set)
    /\ turma_uc(turma_atual) \in uc_semestre_keys
    /\ salas_permitidas # <<>>
    /\ ri' = 1
    /\ si' = 2
    /\ pc' = "procura"
    /\ UNCHANGED <<leitor, dados, ti, lp_estado, lp_file, alocacao>>

\* turma_agendada = False; enter the loops over rooms and start indexes
IniciarProcura ==
    /\ pc = "turma"
    /\ ti <= Len(turma_set)
    /\ turma_uc(turma_atual) \in uc_semestre_keys
    /\ salas_permitidas # <<>>
    /\ ri' = 1
    /\ si' = 1
    /\ pc' = "procura"
    /\ UNCHANGED <<leitor, dados, ti, lp_estado, lp_file, alocacao>>

\* a candidate window fails a check: continue with the next start index
RejeitarJanela ==
    /\ pc = "procura"
    /\ ri <= Len(salas_permitidas)
    /\ si <= NumJanelas(turma_duracao(turma_atual))
    /\ ~ErroDocente(turma_atual, salas_permitidas[ri],
                    Janela(si, turma_duracao(turma_atual)))
    /\ ~Aceite(turma_atual, salas_permitidas[ri],
               Janela(si, turma_duracao(turma_atual)))
    /\ si' = si + 1
    /\ UNCHANGED <<leitor, dados, pc, ti, ri, lp_estado, lp_file, alocacao>>

\* the start indexes of a room are exhausted: continue with the next room
ProximaSala ==
    /\ pc = "procura"
    /\ ri <= Len(salas_permitidas)
    /\ si > NumJanelas(turma_duracao(turma_atual))
    /\ ri' = ri + 1
    /\ si' = 1
    /\ UNCHANGED <<leitor, dados, pc, ti, lp_estado, lp_file, alocacao>>

\* a candidate window survives: reserve it, write its constraints, leave both loops
Agendar ==
    /\ pc = "procura"
    /\ ri <= Len(salas_permitidas)
    /\ si <= NumJanelas(turma_duracao(turma_atual))
    /\ LET t   == turma_atual
           s   == salas_permitidas[ri]
           seq == Janela(si, turma_duracao(t))
           vs  == uc_variables(t, s, seq)
           w   == EscreverNovas(lp_file, written_constraints, LinhasDaTurma(t, s, vs))
       IN  /\ ~ErroDocente(t, s, seq)
           /\ Aceite(t, s, seq)
           /\ variables' = variables \cup Range(vs)
           /\ sala_periodos_ocupados' =
                 Ocupar(sala_periodos_ocupados, {<<s, p>> : p \in Range(seq)}, t)
           /\ docente_periodos_ocupados' =
                 Ocupar(docente_periodos_ocupados,
                        {<<turma_docente(t), p>> : p \in Range(seq)}, t)
           /\ docente_periodo_vars' = RegistarVars(docente_periodo_vars, turma_docente(t), vs)
           /\ sala_periodo_vars' = RegistarVars(sala_periodo_vars, s, vs)
           /\ lp_file' = w.file
           /\ written_constraints' = w.written
           /\ agendadas' = Ocupar(agendadas, {t}, [sala |-> s, periodos |-> seq])
    /\ ti' = ti + 1
    /\ pc' = "turma"
    /\ UNCHANGED <<leitor, dados, ri, si, lp_estado>>

\* FalharTurma leaving the loop over the sections (break for continue)
FalharTurmaSair ==
    /\ pc = "procura"
    /\ ri > Len(salas_permitidas)
    /\ ti' = Len(turma_set) + 1
    /\ pc' = "turma"
    /\ UNCHANGED <<leitor, dados, ri, si, lp_estado, lp_file, alocacao>>

\* no room and window survived: log the failure and continue with the next section
FalharTurma ==
    /\ pc = "procura"
    /\ ri > Len(salas_permitidas)
    /\ ti' = ti + 1
    /\ pc' = "turma"
    /\ UNCHANGED <<leitor, dados, ri, si, lp_estado, lp_file, alocacao>>

\* after the last section: the restricao_UC<a>_UC<b>_periodo_<p> constraints
EscreverRestricoes ==
    /\ pc = "turma"
    /\ ti > Len(turma_set)
    /\ lp_file' = lp_file \o LinhasRestricoes
    /\ pc' = "ordem"
    /\ UNCHANGED <<leitor, dados, ti, ri, si, lp_estado, alocacao>>

\* the ordem_uc_<uc>_turma_<early>_<late> constraints
EscreverOrdem ==
    /\ pc = "ordem"
    /\ lp_file' = lp_file \o LinhasOrdem
    /\ pc' = "conflitos"
    /\ UNCHANGED <<leitor, dados, ti, ri, si, lp_estado, alocacao>>

\* the docente_..._conflito and sala_..._conflito constraints
EscreverConflitos ==
    /\ pc = "conflitos"
    /\ lp_file' = lp_file \o LinhasConflito("docente_conflito", docente_periodo_vars)
                          \o LinhasConflito("sala_conflito", sala_periodo_vars)
    /\ pc' = "binary"
    /\ UNCHANGED <<leitor, dados, ti, ri, si, lp_estado, alocacao>>

\* the Binary block and "End"; leaving the with block closes the file
EscreverBinary ==
    /\ pc = "binary"
    /\ lp_file' = lp_file \o LinhasBinary
    /\ lp_estado' = "fechado"
    /\ pc' = "fim"
    /\ UNCHANGED <<leitor, dados, ti, ri, si, alocacao>>

\* int(docente_id) raises inside the with block: the exception leaves
\* generate_lp_file, and leaving the with block closes the file as written so far
ErroNaProcura ==
    /\ pc = "procura"
    /\ ri <= Len(salas_permitidas)
    /\ si <= NumJanelas(turma_duracao(turma_atual))
    /\ ErroDocente(turma_atual, salas_permitidas[ri],
                   Janela(si, turma_duracao(turma_atual)))
    /\ lp_estado' = "fechado"
    /\ pc' = "erro"
    /\ UNCHANGED <<leitor, dados, ti, ri, si, lp_file, alocacao>>

Next ==
    \/ SemUnidadesCurriculares
    \/ SemColunaSemestre
    \/ AbrirLP
    \/ SaltarSemSemestre
    \/ SaltarSemSalas
    \/ IniciarProcura
    \/ RejeitarJanela
    \/ ProximaSala
    \/ Agendar
    \/ FalharTurma
    \/ EscreverRestricoes
    \/ EscreverOrdem
    \/ EscreverConflitos
    \/ EscreverBinary

Spec == Init /\ [][Next]_vars

------------------------------------------------------------------------------
(* A second family of inputs, for the text written: durations up to 3,     *)
(* units 3 and 11 (unit 11 is in three exclusion pairs), and sections      *)
(* whose teacher is missing (docente_id NaN: docente_nan holds), on which  *)
(* int(docente_id) raises.  Teacher 1 is unavailable in period 1 in the    *)
(* second unavailability table, which also has a row of a teacher 0 that   *)
(* no section has (NaN equals no docente_id); unit 11 has no room in the   *)
(* second eligibility table and no semester in the second unit table.      *)

DocentesEmissao == {0, 1}

DuracoesEmissao == {1, 2, 3}

\* theoretical of unit 3, practical of unit 11
UCLabelsEmissao == {<<3, 1>>, <<11, 2>>}

TurmaLinhasEmissao(id) ==
    {[id |-> id, unidade_curricular_id |-> ul[1], docente_id |-> d, docente_nan |-> d = 0,
      tipo_aula_id |-> IF ul[2] = 1 THEN 1 ELSE 3, duracao |-> dur,
      turma_label_id |-> ul[2]] :
        ul \in UCLabelsEmissao, d \in DocentesEmissao, dur \in DuracoesEmissao}

TabelasTurmasEmissao ==
    UNION {{[i \in 1..n |-> f[n + 1 - i]] :
                f \in {g \in [1..n -> UNION {TurmaLinhasEmissao(id) : id \in 1..n}] :
                          \A i \in 1..n : g[i].id = i}} : n \in 1..MaxTurmas}

EntradasEmissao ==
    [turmas : TabelasTurmasEmissao, salas : {<<1, 2>>},
     periodos : {Sorted(1..MaxPeriodo)},
     uc_sala : {<<UCSala(3, 1), UCSala(11, 1), UCSala(11, 2)>>, <<UCSala(3, 1)>>},
     indisponibilidade_docente : {<<>>, <<Indisp(0, 2), Indisp(1, 1)>>},
     unidades_curriculares :
        {[presente |-> TRUE, tem_semestre |-> TRUE,
          rows |-> <<UCLinha(3, 1), UCLinha(11, 1)>>],
         [presente |-> TRUE, tem_semestre |-> TRUE, rows |-> <<UCLinha(3, 1)>>]}]
    \cup
    [turmas : {t \in TabelasTurmasEmissao : Len(t) = 1}, salas : {<<1, 2>>},
     periodos : {Sorted(1..MaxPeriodo)}, uc_sala : {<<UCSala(3, 1)>>},
     indisponibilidade_docente : {<<>>}, unidades_curriculares : TabelasUCsEmFalta]

InitEmissao ==
    /\ dados \in EntradasEmissao
    /\ pc = "inicio"
    /\ ti = 0
    /\ ri = 0
    /\ si = 0
    /\ lp_estado = "inexistente"
    /\ lp_file = <<>>
    /\ sala_periodos_ocupados = <<>>
    /\ docente_periodos_ocupados = <<>>
    /\ docente_periodo_vars = <<>>
    /\ sala_periodo_vars = <<>>
    /\ variables = {}
    /\ written_constraints = {}
    /\ agendadas = <<>>
    /\ solucao = <<>>
    /\ vi = 0
    /\ scheduled_classes = <<>>
    /\ used_rooms = {}

NextEmissao ==
    \/ SemUnidadesCurriculares
    \/ SemColunaSemestre
    \/ AbrirLP
    \/ SaltarSemSemestre
    \/ SaltarSemSalas
    \/ IniciarProcura
    \/ RejeitarJanela
    \/ ProximaSala
    \/ Agendar
    \/ ErroNaProcura
    \/ FalharTurma
    \/ EscreverRestricoes
    \/ EscreverOrdem
    \/ EscreverConflitos
    \/ EscreverBinary

SpecEmissao == InitEmissao /\ [][NextEmissao]_vars

------------------------------------------------------------------------------
(* A third family of inputs, for the length of a block: the inputs of the  *)
(* first family with the durations the 'duracao' column may hold, which    *)
(* the code never checks: one that no period table can hold                *)
(* (MaxPeriodo + 1), zero, and a negative one, for which the slice of line *)
(* 157 ends before the end of the period list.                             *)

DuracoesDuracao == {-1, 0, 1, 2, MaxPeriodo + 1}

TurmaLinhasDuracao(id) ==
    {[id |-> id, unidade_curricular_id |-> ul[1], docente_id |-> d, docente_nan |-> FALSE,
      tipo_aula_id |-> IF ul[2] = 1 THEN 1 ELSE 3, duracao |-> dur,
      turma_label_id |-> ul[2]] :
        ul \in UCLabels, d \in Docentes, dur \in DuracoesDuracao}

TabelasTurmasDuracao ==
    UNION {{[i \in 1..n |-> f[n + 1 - i]] :
                f \in {g \in [1..n -> UNION {TurmaLinhasDuracao(id) : id \in 1..n}] :
                          \A i \in 1..n : g[i].id = i}} : n \in 1..MaxTurmas}

EntradasDuracao ==
    [turmas : TabelasTurmasDuracao, salas : TabelasSalas, periodos : TabelasPeriodos,
     uc_sala : TabelasUCSala, indisponibilidade_docente : TabelasIndisponibilidade,
     unidades_curriculares : TabelasUCs]
    \cup
    [turmas : {t \in TabelasTurmasDuracao : Len(t) = 1}, salas : {<<1>>},
     periodos : {Sorted(1..MaxPeriodo)}, uc_sala : {<<UCSala(3, 1)>>},
     indisponibilidade_docente : {<<>>}, unidades_curriculares : TabelasUCsEmFalta]

InitDuracao ==
    /\ dados \in EntradasDuracao
    /\ pc = "inicio"
    /\ ti = 0
    /\ ri = 0
    /\ si = 0
    /\ lp_estado = "inexistente"
    /\ lp_file = <<>>
    /\ sala_periodos_ocupados = <<>>
    /\ docente_periodos_ocupados = <<>>
    /\ docente_periodo_vars = <<>>
    /\ sala_periodo_vars = <<>>
    /\ variables = {}
    /\ written_constraints = {}
    /\ agendadas = <<>>
    /\ solucao = <<>>
    /\ vi = 0
    /\ scheduled_classes = <<>>
    /\ used_rooms = {}

SpecDuracao == InitDuracao /\ [][Next]_vars

------------------------------------------------------------------------------
(* A fourth family of inputs, for the constraints between units: up to     *)
(* MaxTurmasPares sections of duration 2 of the eight units of the five    *)
(* pairs (3, 11 and 22 theoretical, of teacher 1; the others practical,   *)
(* of teacher 2, who is unavailable in period 1), so that a constraint     *)
(* joins sections of both units of a pair, placed or not.  The room table  *)
(* is empty or holds the rooms 2 and 1; the units use room 1, the units 5, *)
(* 13 and 23 room 2 as well, and unit 15 no room; unit 14 has no semester. *)

MaxTurmasPares == 3

\* (unit, turma_label_id) of a row
UCLabelsPares ==
    {<<3, 1>>, <<5, 2>>, <<11, 1>>, <<13, 2>>, <<14, 2>>, <<15, 2>>, <<22, 1>>, <<23, 2>>}

TurmaLinhasPares(id) ==
    {[id |-> id, unidade_curricular_id |-> ul[1], docente_id |-> ul[2],
      docente_nan |-> FALSE, tipo_aula_id |-> IF ul[2] = 1 THEN 1 ELSE 3, duracao |-> 2,
      turma_label_id |-> ul[2]] :
        ul \in UCLabelsPares}

TabelasTurmasPares ==
    UNION {{[i \in 1..n |-> f[n + 1 - i]] :
                f \in {g \in [1..n -> UNION {TurmaLinhasPares(id) : id \in 1..n}] :
                          \A i \in 1..n : g[i].id = i}} : n \in 1..MaxTurmasPares}

EntradasPares ==
    [turmas : TabelasTurmasPares, salas : {<<>>, <<2, 1>>},
     periodos : {Sorted(1..MaxPeriodo)},
     uc_sala : {<<UCSala(3, 1), UCSala(5, 1), UCSala(5, 2), UCSala(11, 1), UCSala(13, 1),
                  UCSala(13, 2), UCSala(14, 1), UCSala(22, 1), UCSala(23, 1),
                  UCSala(23, 2)>>},
     indisponibilidade_docente : {<<Indisp(2, 1)>>},
     unidades_curriculares :
        {[presente |-> TRUE, tem_semestre |-> TRUE,
          rows |-> <<UCLinha(3, 1), UCLinha(5, 1), UCLinha(11, 1), UCLinha(13, 1),
                     UCLinha(15, 1), UCLinha(22, 2), UCLinha(23, 2)>>]}]
    \cup
    [turmas : {t \in TabelasTurmasPares : Len(t) = 1}, salas : {<<2, 1>>},
     periodos : {Sorted(1..MaxPeriodo)}, uc_sala : {<<UCSala(3, 1)>>},
     indisponibilidade_docente : {<<>>}, unidades_curriculares : TabelasUCsEmFalta]

InitPares ==
    /\ dados \in EntradasPares
    /\ pc = "inicio"
    /\ ti = 0
    /\ ri = 0
    /\ si = 0
    /\ lp_estado = "inexistente"
    /\ lp_file = <<>>
    /\ sala_periodos_ocupados = <<>>
    /\ docente_periodos_ocupados = <<>>
    /\ docente_periodo_vars = <<>>
    /\ sala_periodo_vars = <<>>
    /\ variables = {}
    /\ written_constraints = {}
    /\ agendadas = <<>>
    /\ solucao = <<>>
    /\ vi = 0
    /\ scheduled_classes = <<>>
    /\ used_rooms = {}

SpecPares == InitPares /\ [][Next]_vars

------------------------------------------------------------------------------
(* parse_solution of wwwroot/Scripts/solution_reader.py: the pass over the *)
(* 'variable' elements of the solver's solution file.  Text is held as the *)
(* sequence of its character codes ('+' = 43, '-' = 45, '.' = 46,           *)
(* 'a' = 97), as for the names above.                                      *)

MaxVariaveis == 2

\* s.startswith(prefix)
startswith(str, prefix) ==
    Len(str) >= Len(prefix) /\ SubSeq(str, 1, Len(prefix)) = prefix

RECURSIVE split(_)
\* s.split('_')
split(str) ==
    IF \A k \in DOMAIN str : str[k] # 95 THEN <<str>>
    ELSE LET k == Min({j \in DOMAIN str : str[j] = 95})
         IN  <<SubSeq(str, 1, k - 1)>> \o split(SubSeq(str, k + 1, Len(str)))

Max(S) == CHOOSE x \in S : \A y \in S : x >= y

\* the white space int() and float() strip from both ends of the text
Espacos ==
    (9..13) \cup {32, 133, 160, 5760} \cup (8192..8202)
            \cup {8232, 8233, 8239, 8287, 12288}

\* the digit zero of each block of Unicode decimal digits: int() and float() read
\* the ten characters from it as the digits 0..9
ZerosDecimais ==
    {48, 1632, 1776, 1984, 2406, 2534, 2662, 2790, 2918, 3046,
     3174, 3302, 3430, 3558, 3664, 3792, 3872, 4160, 4240, 6112,
     6160, 6470, 6608, 6784, 6800, 6992, 7088, 7232, 7248, 42528,
     43216, 43264, 43472, 43504, 43600, 44016, 65296, 66720, 68912, 69734,
     69872, 69942, 70096, 70384, 70736, 70864, 71248, 71360, 71472, 71904,
     72016, 72784, 73040, 73120, 92768, 92864, 93008, 120782, 120792, 120802,
     120812, 120822, 123200, 123632, 125264, 130032}

\* the value of a decimal digit, -1 for any other character
Decimal(c) ==
    IF \E z \in ZerosDecimais : c \in z..(z + 9)
    THEN c - (CHOOSE z \in ZerosDecimais : c \in z..(z + 9))
    ELSE -1

\* the text without the white space at its ends
strip(str) ==
    LET ks == {k \in DOMAIN str : str[k] \notin Espacos}
    IN  IF ks = {} THEN <<>> ELSE SubSeq(str, Min(ks), Max(ks))

\* the text without its sign
SemSinal(str) == IF str # <<>> /\ str[1] \in {43, 45} THEN Tail(str) ELSE str

\* a run of digits, with single '_' allowed between two digits
EDigitos(str) ==
    /\ str # <<>>
    /\ \A k \in DOMAIN str : Decimal(str[k]) >= 0 \/ str[k] = 95
    /\ \A k \in DOMAIN str :
          str[k] = 95 => /\ k > 1
                         /\ k < Len(str)
                         /\ str[k - 1] # 95
                         /\ str[k + 1] # 95

RECURSIVE ValorDigitos(_)
\* the number a run of digits stands for
ValorDigitos(str) ==
    IF str = <<>> THEN 0
    ELSE LET resto == ValorDigitos(SubSeq(str, 1, Len(str) - 1))
         IN  IF str[Len(str)] = 95 THEN resto
             ELSE resto * 10 + Decimal(str[Len(str)])

\* sys.int_info.default_max_str_digits: int() refuses a longer run of digits
MaxStrDigits == 4300

\* int(s) raises ValueError unless s, stripped, is a run of at most MaxStrDigits
\* digits after an optional sign
int_ok(str) ==
    /\ EDigitos(SemSinal(strip(str)))
    /\ Cardinality({k \in DOMAIN str : Decimal(str[k]) >= 0}) <= MaxStrDigits

\* int(s)
int(str) ==
    IF strip(str)[1] = 45 THEN 0 - ValorDigitos(SemSinal(strip(str)))
    ELSE ValorDigitos(SemSinal(strip(str)))

\* s.lower() of ASCII letters
minusculas(str) == [k \in DOMAIN str |-> IF str[k] \in 65..90 THEN str[k] + 32 ELSE str[k]]

\* "inf", "infinity", "nan"
Especiais ==
    {<<105, 110, 102>>, <<105, 110, 102, 105, 110, 105, 116, 121>>, <<110, 97, 110>>}

\* the parts of a decimal literal <inteira>.<fracao>e<expoente>, and whether it is one
float_partes(corpo) ==
    LET es      == {k \in DOMAIN corpo : corpo[k] \in {69, 101}}
        mant    == IF es = {} THEN corpo ELSE SubSeq(corpo, 1, Min(es) - 1)
        expo    == IF es = {} THEN <<>> ELSE SubSeq(corpo, Min(es) + 1, Len(corpo))
        ps      == {k \in DOMAIN mant : mant[k] = 46}
        inteira == IF ps = {} THEN mant ELSE SubSeq(mant, 1, Min(ps) - 1)
        fracao  == IF ps = {} THEN <<>> ELSE SubSeq(mant, Min(ps) + 1, Len(mant))
    IN  [ok |-> /\ inteira = <<>> \/ EDigitos(inteira)
                /\ fracao = <<>> \/ EDigitos(fracao)
                /\ inteira # <<>> \/ fracao # <<>>
                /\ es = {} \/ EDigitos(SemSinal(expo)),
         inteira |-> inteira, fracao |-> fracao, expoente |-> expo]

\* float(s) raises ValueError unless s, stripped and without its sign, is a decimal
\* literal or one of inf, infinity, nan
float_ok(str) ==
    \/ minusculas(SemSinal(strip(str))) \in Especiais
    \/ float_partes(SemSinal(strip(str))).ok

\* the digits of a run of digits
Algarismos(str) ==
    SelectSeq([k \in DOMAIN str |-> Decimal(str[k])], LAMBDA d : d >= 0)

\* a <= b for two sequences of fraction digits
FracaoMenorIgual(a, b) ==
    LET n     == IF Len(a) > Len(b) THEN Len(a) ELSE Len(b)
        pa(k) == IF k <= Len(a) THEN a[k] ELSE 0
        pb(k) == IF k <= Len(b) THEN b[k] ELSE 0
        difs  == {k \in 1..n : pa(k) # pb(k)}
    IN  IF difs = {} THEN TRUE ELSE pa(Min(difs)) < pb(Min(difs))

\* the digits of 1 - 2^-54, the least number that rounds to the double 1.0
LimiteInferior ==
    <<9, 9, 9, 9, 9, 9, 9, 9, 9, 9, 9, 9, 9, 9, 9, 9, 4, 4, 4, 8, 8, 8, 4, 8, 7, 6, 8,
      7, 4, 2, 1, 7, 2, 9, 7, 8, 8, 1, 8, 4, 1, 6, 5, 9, 5, 4, 5, 8, 9, 8, 4, 3, 7, 5>>

\* the digits of 1 + 2^-53, the greatest number that rounds to the double 1.0
LimiteSuperior ==
    <<1, 0, 0, 0, 0, 0, 0, 0, 0, 0, 0, 0, 0, 0, 0, 0, 1, 1, 1, 0, 2, 2, 3, 0, 2, 4, 6,
      2, 5, 1, 5, 6, 5, 4, 0, 4, 2, 3, 6, 3, 1, 6, 6, 8, 0, 9, 0, 8, 2, 0, 3, 1, 2, 5>>

\* float(s) == 1: the literal, correctly rounded to a double, is 1.0.  The literal
\* is taken as 0.<digitos> * 10^ponto with a first digit other than 0; ponto is 0 or
\* 1 only for an exponent of at most Len(ds) in absolute value, so an exponent of
\* more digits than Len(ds) + 1 has (longe) is not evaluated.
float_igual_1(str) ==
    LET s        == strip(str)
        p        == float_partes(SemSinal(s))
        ds       == Algarismos(p.inteira) \o Algarismos(p.fracao)
        nz       == {k \in DOMAIN ds : ds[k] # 0}
        es       == Algarismos(SemSinal(p.expoente))
        enz      == {k \in DOMAIN es : es[k] # 0}
        longe    == enz # {} /\ Len(es) - Min(enz) + 1 > Len(Digits(Len(ds) + 1))
        e        == IF p.expoente # <<>> /\ p.expoente[1] = 45
                    THEN 0 - ValorDigitos(SemSinal(p.expoente))
                    ELSE ValorDigitos(SemSinal(p.expoente))
        ponto    == Len(Algarismos(p.inteira)) + e - (Min(nz) - 1)
        digitos  == SubSeq(ds, Min(nz), Len(ds))
    IN  /\ p.ok
        /\ s[1] # 45
        /\ nz # {}
        /\ ~longe
        /\ \/ ponto = 1 /\ FracaoMenorIgual(digitos, LimiteSuperior)
           \/ ponto = 0 /\ FracaoMenorIgual(LimiteInferior, digitos)

\* turmas_df[turmas_df['id'] == turma_id_int]
turma_info(id) == SelectSeq(dados.turmas, LAMBDA r : r.id = id)

\* the 'variable' element in turn
variable == solucao.variaveis[vi]

\* value = float(variable.get('value')) returns
ValorLido == float_ok(variable.value)

\* name.startswith('x') and value == 1
RamoX ==
    ValorLido /\ startswith(variable.name, <<120>>) /\ float_igual_1(variable.value)

\* elif name.startswith('z_') and value == 1
RamoZ ==
    /\ ValorLido
    /\ ~RamoX
    /\ startswith(variable.name, <<122, 95>>)
    /\ float_igual_1(variable.value)

\* x_turma_id[1:], for a name of three parts
turma_id_de(name) == Tail(split(name)[1])

\* the names and values of the elements explored
NomesVariavel ==
    {<<120, 49, 95, 49, 95, 49>>,           \* x1_1_1
     <<120, 50, 95, 56, 95, 51>>,           \* x2_8_3: section 2 is in one relation only
     <<120, 49, 95, 49>>,                   \* x1_1: two parts
     <<120, 49, 95, 49, 95, 49, 95, 49>>,   \* x1_1_1_1: four parts
     <<120, 49, 95, 49, 95, 97>>,           \* x1_1_a: the period is not a number
     <<120, 97, 95, 49, 95, 49>>,           \* xa_1_1: the section is not a number
     <<120, 49, 95, 97, 95, 50>>,           \* x1_a_2: the room is not a number
     <<120, 43, 49, 95, 49, 95, 32, 50>>,   \* "x+1_1_ 2": int('+1') is 1, int(' 2') is 2
     <<122, 95, 49>>,                       \* z_1
     <<122, 95, 56>>}                       \* z_8

ValoresVariavel == {<<49>>, <<48>>}         \* "1", "0"

\* every name with the values "1" and "0"; x1_1_1 with the value "1.0"; x2_8_3 with
\* the digits of 1 + 2^-53, which float() rounds to 1.0; z_8 with the value " 1e0";
\* z_1 with the value "a", which is not a number
Variaveis ==
    [name : NomesVariavel, value : ValoresVariavel]
    \cup {[name |-> <<120, 49, 95, 49, 95, 49>>, value |-> <<49, 46, 48>>],
          [name |-> <<120, 50, 95, 56, 95, 51>>,
           value |-> <<49, 46>> \o [k \in 1..53 |-> 48 + LimiteSuperior[k + 1]]],
          [name |-> <<122, 95, 56>>, value |-> <<32, 49, 101, 48>>],
          [name |-> <<122, 95, 49>>, value |-> <<97>>]}

\* the documents of at most MaxVariaveis elements, and the two unreadable files
Solucoes ==
    [xml : {"ok"}, pickle : {"ok"},
     variaveis : UNION {[1..n -> Variaveis] : n \in 0..MaxVariaveis}]
    \cup
    [xml : {"ParseError", "FileNotFoundError"}, pickle : {"ok"}, variaveis : {<<>>}]
    \cup
    [xml : {"ok"}, pickle : {"erro"}, variaveis : {<<[name |-> <<122, 95, 49>>, value |-> <<49>>]>>}]

\* the prepared data read from the pickle: one section, or two stored in descending order
EntradasLeitor ==
    [turmas : {<<[id |-> 1, unidade_curricular_id |-> 3, docente_id |-> 1, docente_nan |-> FALSE,
                  tipo_aula_id |-> 1, duracao |-> 1, turma_label_id |-> 1]>>,
               <<[id |-> 2, unidade_curricular_id |-> 5, docente_id |-> 2, docente_nan |-> FALSE,
                  tipo_aula_id |-> 3, duracao |-> 2, turma_label_id |-> 2],
                 [id |-> 1, unidade_curricular_id |-> 3, docente_id |-> 1, docente_nan |-> FALSE,
                  tipo_aula_id |-> 1, duracao |-> 1, turma_label_id |-> 1]>>},
     salas : {<<1, 8>>}, periodos : {<<1, 2, 3>>}, uc_sala : {<<UCSala(3, 1), UCSala(5, 8)>>},
     indisponibilidade_docente : {<<>>},
     unidades_curriculares :
        {[presente |-> TRUE, tem_semestre |-> TRUE, rows |-> <<UCLinha(3, 1), UCLinha(5, 1)>>]}]

InitLeitor ==
    /\ dados \in EntradasLeitor
    /\ solucao \in Solucoes
    /\ pc = "leitor"
    /\ vi = 0
    /\ scheduled_classes = <<>>
    /\ used_rooms = {}
    /\ ti = 0
    /\ ri = 0
    /\ si = 0
    /\ lp_estado = "inexistente"
    /\ lp_file = <<>>
    /\ sala_periodos_ocupados = <<>>
    /\ docente_periodos_ocupados = <<>>
    /\ docente_periodo_vars = <<>>
    /\ sala_periodo_vars = <<>>
    /\ variables = {}
    /\ written_constraints = {}
    /\ agendadas = <<>>

\* the state of generate_lp_file, which parse_solution leaves alone
gerador == <<dados, ti, ri, si, lp_estado, lp_file, alocacao>>

\* ET.parse raises ParseError or FileNotFoundError: return [], set()
SolucaoIlegivel ==
    /\ pc = "leitor"
    /\ vi = 0
    /\ solucao.xml # "ok"
    /\ pc' = "lido"
    /\ UNCHANGED <<gerador, leitor>>

\* reading the pickle raises: return [], set()
PickleIlegivel ==
    /\ pc = "leitor"
    /\ vi = 0
    /\ solucao.xml = "ok"
    /\ solucao.pickle # "ok"
    /\ pc' = "lido"
    /\ UNCHANGED <<gerador, leitor>>

\* both files are read: enter the loop over root.findall('.//variable')
IniciarLeitura ==
    /\ pc = "leitor"
    /\ vi = 0
    /\ solucao.xml = "ok"
    /\ solucao.pickle = "ok"
    /\ vi' = 1
    /\ UNCHANGED <<gerador, pc, solucao, scheduled_classes, used_rooms>>

\* float(variable.get('value')) raises ValueError, outside any try: the exception
\* leaves parse_solution, which returns nothing
ErroValor ==
    /\ pc = "leitor"
    /\ vi \in DOMAIN solucao.variaveis
    /\ ~ValorLido
    /\ pc' = "erro"
    /\ UNCHANGED <<gerador, leitor>>

\* an x variable of value 1 whose name has not three parts: report it
SaltarFormato ==
    /\ pc = "leitor"
    /\ vi \in DOMAIN solucao.variaveis
    /\ RamoX
    /\ Len(split(variable.name)) # 3
    /\ vi' = vi + 1
    /\ UNCHANGED <<gerador, pc, solucao, scheduled_classes, used_rooms>>

\* int(periodo_id) raises ValueError: report it and continue
SaltarPeriodo ==
    /\ pc = "leitor"
    /\ vi \in DOMAIN solucao.variaveis
    /\ RamoX
    /\ Len(split(variable.name)) = 3
    /\ ~int_ok(split(variable.name)[3])
    /\ vi' = vi + 1
    /\ UNCHANGED <<gerador, pc, solucao, scheduled_classes, used_rooms>>

\* int(turma_id) raises ValueError: report it and continue
SaltarTurmaId ==
    /\ pc = "leitor"
    /\ vi \in DOMAIN solucao.variaveis
    /\ RamoX
    /\ Len(split(variable.name)) = 3
    /\ int_ok(split(variable.name)[3])
    /\ ~int_ok(turma_id_de(variable.name))
    /\ vi' = vi + 1
    /\ UNCHANGED <<gerador, pc, solucao, scheduled_classes, used_rooms>>

\* turma_info.empty: report the unknown section and continue
SaltarTurmaDesconhecida ==
    /\ pc = "leitor"
    /\ vi \in DOMAIN solucao.variaveis
    /\ RamoX
    /\ Len(split(variable.name)) = 3
    /\ int_ok(split(variable.name)[3])
    /\ int_ok(turma_id_de(variable.name))
    /\ turma_info(int(turma_id_de(variable.name))) = <<>>
    /\ vi' = vi + 1
    /\ UNCHANGED <<gerador, pc, solucao, scheduled_classes, used_rooms>>

\* scheduled_classes.append({...}) with the first row of the section
LerColocacao ==
    /\ pc = "leitor"
    /\ vi \in DOMAIN solucao.variaveis
    /\ RamoX
    /\ Len(split(variable.name)) = 3
    /\ int_ok(split(variable.name)[3])
    /\ int_ok(turma_id_de(variable.name))
    /\ turma_info(int(turma_id_de(variable.name))) # <<>>
    /\ LET parts == split(variable.name)
           info  == turma_info(int(turma_id_de(variable.name)))[1]
       IN  scheduled_classes' =
               Append(scheduled_classes,
                      [turma_id |-> turma_id_de(variable.name),
                       unidade_curricular_id |-> info.unidade_curricular_id,
                       tipo_aula_id |-> info.tipo_aula_id,
                       turma_label_id |-> info.turma_label_id,
                       sala_id |-> parts[2],
                       periodo_id |-> int(parts[3])])
    /\ vi' = vi + 1
    /\ UNCHANGED <<gerador, pc, solucao, used_rooms>>

\* used_rooms.add(parts[1]) for a z_ variable of value 1
LerSalaUsada ==
    /\ pc = "leitor"
    /\ vi \in DOMAIN solucao.variaveis
    /\ RamoZ
    /\ used_rooms' = used_rooms \cup {split(variable.name)[2]}
    /\ vi' = vi + 1
    /\ UNCHANGED <<gerador, pc, solucao, scheduled_classes>>

\* neither branch applies: the element is only counted
IgnorarVariavel ==
    /\ pc = "leitor"
    /\ vi \in DOMAIN solucao.variaveis
    /\ ValorLido
    /\ ~RamoX
    /\ ~RamoZ
    /\ vi' = vi + 1
    /\ UNCHANGED <<gerador, pc, solucao, scheduled_classes, used_rooms>>

\* the loop is over: return scheduled_classes, used_rooms
TerminarLeitura ==
    /\ pc = "leitor"
    /\ vi = Len(solucao.variaveis) + 1
    /\ pc' = "lido"
    /\ UNCHANGED <<gerador, leitor>>

NextLeitor ==
    \/ SolucaoIlegivel
    \/ PickleIlegivel
    \/ IniciarLeitura
    \/ ErroValor
    \/ SaltarFormato
    \/ SaltarPeriodo
    \/ SaltarTurmaId
    \/ SaltarTurmaDesconhecida
    \/ LerColocacao
    \/ LerSalaUsada
    \/ IgnorarVariavel
    \/ TerminarLeitura

SpecLeitor == InitLeitor /\ [][NextLeitor]_vars

------------------------------------------------------------------------------
(* Properties.  A placement is read from agendadas, the record of the      *)
(* "Turma ... agendada na sala ... nos períodos ..." log lines.            *)

Bloco(t) == Range(agendadas[t].periodos)

SemestreDe(t) == uc_semestre(turma_uc(t))

\* the sections placed by the step being taken
Novas == DOMAIN agendadas' \ DOMAIN agendadas

\* the section was reached by the loop and left without a placement
Falhada(t) ==
    /\ t \notin DOMAIN agendadas
    /\ \E k \in DOMAIN turma_set : turma_set[k] = t /\ (k < ti \/ pc \notin {"turma", "procura"})

\* the section passed the two early exits and went through the search
Procurada(t) ==
    /\ turma_uc(t) \in uc_semestre_keys
    /\ turma_sala(t) # <<>>

Indisponivel(d, p) ==
    \E i \in DOMAIN dados.indisponibilidade_docente :
        /\ dados.indisponibilidade_docente[i].docente_id = d
        /\ dados.indisponibilidade_docente[i].periodo_horario_id = p

\* C1: two distinct placed sections in the same room, or of the same teacher, have
\* disjoint blocks; every (room, period) and (teacher, period) of a placement is
\* held in the occupancy maps by that placement alone.
C1_SemSobreposicao ==
    /\ \A t1, t2 \in DOMAIN agendadas :
          (/\ t1 # t2
           /\ \/ agendadas[t1].sala = agendadas[t2].sala
              \/ turma_docente(t1) = turma_docente(t2))
          => Bloco(t1) \cap Bloco(t2) = {}
    /\ \A t \in DOMAIN agendadas : \A p \in Bloco(t) :
          /\ <<agendadas[t].sala, p>> \in DOMAIN sala_periodos_ocupados
          /\ sala_periodos_ocupados[<<agendadas[t].sala, p>>] = t
          /\ <<turma_docente(t), p>> \in DOMAIN docente_periodos_ocupados
          /\ docente_periodos_ocupados[<<turma_docente(t), p>>] = t

\* two sections of one teacher placed in one room
C1_Witness ==
    \E t1, t2 \in DOMAIN agendadas :
        /\ t1 # t2
        /\ agendadas[t1].sala = agendadas[t2].sala
        /\ turma_docente(t1) = turma_docente(t2)
        /\ Bloco(t1) # {} /\ Bloco(t2) # {}

\* C2 (as claimed): the block of every placement is made of consecutive period ids
\* of the period table and is as long as the section's duration, and no section is
\* placed whose duration is more than the number of periods.
C2_BlocoContiguo ==
    \A t \in DOMAIN agendadas :
        LET b == agendadas[t].periodos
        IN  /\ Len(b) = turma_duracao(t)
            /\ \A i \in 1..(Len(b) - 1) : b[i + 1] = b[i] + 1
            /\ Range(b) \subseteq Range(dados.periodos)
            /\ turma_duracao(t) <= Len(periodos_ordenados)

\* C3 (as claimed): after the allocation pass, sections of two units that exclude
\* each other in restricoes_entre_ucs share no period, whatever their rooms.
C3_ExclusaoEntreUCs ==
    pc \in {"ordem", "conflitos", "binary", "fim"} =>
        \A t1, t2 \in DOMAIN agendadas :
            (/\ turma_uc(t1) \in DOMAIN restricoes_entre_ucs
             /\ turma_uc(t2) \in Range(restricoes_entre_ucs[turma_uc(t1)]))
            => Bloco(t1) \cap Bloco(t2) = {}

\* C4: when a section of turma_label_id 1 is committed, no period of its block is
\* held, in any room, by a placed section of the same semester; and a candidate
\* window of such a section that meets one is left for the next start index.
C4_ExclusividadeSemestre ==
    [][/\ \A t \in Novas :
             turma_label(t) = 1 =>
                \A t2 \in DOMAIN agendadas :
                    SemestreDe(t2) = SemestreDe(t)
                    => Bloco(t2) \cap Range(agendadas'[t].periodos) = {}
       /\ (/\ pc = "procura"
           /\ ri <= Len(salas_permitidas)
           /\ si <= NumJanelas(turma_duracao(turma_atual))
           /\ turma_label(turma_atual) = 1
           /\ \E t2 \in DOMAIN agendadas :
                 /\ SemestreDe(t2) = SemestreDe(turma_atual)
                 /\ Bloco(t2) \cap Range(Janela(si, turma_duracao(turma_atual))) # {})
          => (/\ agendadas' = agendadas
              /\ pc' = "procura" /\ ti' = ti /\ ri' = ri /\ si' = si + 1)
      ]_vars

\* a theoretical section sits right after the period of an earlier section of its
\* semester, which has another room, another teacher and no exclusion with it, in a
\* period its own teacher could have taken
C4_Witness ==
    \E t1, t2 \in DOMAIN agendadas :
        /\ t1 < t2
        /\ turma_label(t2) = 1
        /\ SemestreDe(t1) = SemestreDe(t2)
        /\ agendadas[t1].sala # agendadas[t2].sala
        /\ turma_docente(t1) # turma_docente(t2)
        /\ turma_uc(t2) \notin DOMAIN restricoes_entre_ucs
        /\ agendadas[t1].periodos = <<1>>
        /\ agendadas[t2].periodos = <<2>>
        /\ ~Indisponivel(turma_docente(t2), 1)

\* C5: no period of a placement is a period in which the section's teacher is
\* unavailable.
C5_DocenteDisponivel ==
    \A t \in DOMAIN agendadas : \A p \in Bloco(t) : ~Indisponivel(turma_docente(t), p)

\* a section placed after a period of the table in which its teacher is unavailable
C5_Witness ==
    \E t \in DOMAIN agendadas : \E p \in Range(dados.periodos) :
        /\ Indisponivel(turma_docente(t), p)
        /\ agendadas[t].periodos # <<>>
        /\ p < agendadas[t].periodos[1]

\* C6: the committed (room, block) is a candidate that passes every check against
\* the occupancy left by the sections before, every candidate before it in the order
\* (rooms in iteration order, start index ascending) fails one, and the search of a
\* section examines nothing after its commit.
C6_PrimeiroCandidato ==
    [][/\ \A t \in Novas :
             LET c  == agendadas'[t]
                 ss == turma_sala(t)
                 d  == turma_duracao(t)
             IN  \E r \in DOMAIN ss : \E i \in 1..NumJanelas(d) :
                    /\ ss[r] = c.sala
                    /\ Janela(i, d) = c.periodos
                    /\ Aceite(t, c.sala, c.periodos)
                    /\ \A r2 \in DOMAIN ss : \A i2 \in 1..NumJanelas(d) :
                          (r2 < r \/ (r2 = r /\ i2 < i))
                          => ~Aceite(t, ss[r2], Janela(i2, d))
       /\ (pc' = "procura" => turma_set[ti'] \notin DOMAIN agendadas')
      ]_vars

\* a section placed in the second room of its iteration order
C6_Witness ==
    \E t \in DOMAIN agendadas :
        /\ Len(turma_sala(t)) >= 2
        /\ agendadas[t].sala = turma_sala(t)[2]

\* C7 (as claimed): the rooms of a section are tried in ascending id order, and the
\* room of a placed section is the smallest eligible room id with a surviving block.
C7_SalasPorIdCrescente ==
    [][/\ \A t \in Novas :
             \A s2 \in Range(turma_sala(t)) :
                 s2 < agendadas'[t].sala
                 => \A i \in 1..NumJanelas(turma_duracao(t)) :
                       ~Aceite(t, s2, Janela(i, turma_duracao(t)))
       /\ (pc = "procura" /\ ri <= Len(salas_permitidas))
          => \A r2 \in 1..(ri - 1) : salas_permitidas[r2] < salas_permitidas[ri]
      ]_vars

\* C9 (as claimed): at the end of the run no line of the model text names a decision
\* variable of a section that was left unplaced.
C9_SemVariaveis ==
    pc = "fim" =>
        \A t \in Range(turma_set) \ DOMAIN agendadas :
            \A i \in DOMAIN lp_file : \A v \in Range(lp_file[i].vars) : v[1] # t

\* C9 (amended): at the end of the run a decision variable of an unplaced section is
\* in no per-section constraint, no conflito constraint and not in the Binary block;
\* the only lines naming one are the restricao_UC<a>_UC<b>_periodo_<p> constraints
\* of the section's own unit, which name it for every room of the room table and
\* every period.
C9_SemVariaveisProprias ==
    pc = "fim" =>
        \A t \in Range(turma_set) \ DOMAIN agendadas :
            /\ \A v \in variables : v[1] # t
            /\ \A i \in DOMAIN lp_file : \A v \in Range(lp_file[i].vars) :
                  v[1] = t => /\ lp_file[i].kind = "restricao"
                              /\ turma_uc(t) \in {lp_file[i].a, lp_file[i].b}
            /\ turma_uc(t) \in {3, 5, 11, 13, 14, 15, 22, 23} =>
                  \A r \in Range(dados.salas) : \A p \in Range(dados.periodos) :
                      \E i \in DOMAIN lp_file :
                          /\ lp_file[i].kind = "restricao"
                          /\ turma_uc(t) \in {lp_file[i].a, lp_file[i].b}
                          /\ <<t, r, p>> \in Range(lp_file[i].vars)

\* the run ended with a section unplaced because its teacher's unavailability meets
\* every window, another section placed, and a restricao line naming the former
C9_Witness ==
    /\ pc = "fim"
    /\ agendadas # <<>>
    /\ \E t \in Range(turma_set) \ DOMAIN agendadas :
          /\ Procurada(t)
          /\ NumJanelas(turma_duracao(t)) >= 1
          /\ \A i \in 1..NumJanelas(turma_duracao(t)) :
                DocenteIndisponivel(t, Janela(i, turma_duracao(t)))
          /\ \E i \in DOMAIN lp_file :
                lp_file[i].kind = "restricao" /\ \E v \in Range(lp_file[i].vars) : v[1] = t

\* C10: a step of the per-section pass that leaves the current section unplaced
\* changes neither occupancy map, nor the created variables, nor the written
\* constraints, nor the text; when it ends the section, the loop goes on with the
\* next section of the ascending id order.
C10_FalhaSemEfeito ==
    [][(/\ pc \in {"turma", "procura"}
        /\ ti <= Len(turma_set)
        /\ turma_atual \notin DOMAIN agendadas')
       => (/\ UNCHANGED <<sala_periodos_ocupados, docente_periodos_ocupados,
                          variables, written_constraints, lp_file>>
           /\ ti' # ti => (ti' = ti + 1 /\ pc' = "turma"))
      ]_vars

\* a section went through the search unplaced and a section of a larger id was placed
C10_Witness ==
    \E t1 \in Range(turma_set) : \E t2 \in DOMAIN agendadas :
        /\ t1 < t2
        /\ Falhada(t1) /\ Procurada(t1)
        /\ Bloco(t2) # {}

\* C11: when the input has no 'unidades_curriculares' relation, or the relation has
\* no 'semestre' column, the run only goes from its start to its abort: the output
\* file is never opened or written, no section is processed, and no placement,
\* occupancy entry or variable is created.
C11_SemDadosDeSemestre ==
    (~dados.unidades_curriculares.presente \/ ~dados.unidades_curriculares.tem_semestre)
    => /\ pc \in {"inicio", "abortado"}
       /\ lp_estado = "inexistente"
       /\ lp_file = <<>>
       /\ ti = 0
       /\ agendadas = <<>>
       /\ sala_periodos_ocupados = <<>>
       /\ docente_periodos_ocupados = <<>>
       /\ variables = {}
       /\ written_constraints = {}

\* the run has stopped on a relation that is present but has no 'semestre' column
C11_Witness ==
    /\ pc = "abortado"
    /\ dados.unidades_curriculares.presente
    /\ ~dados.unidades_curriculares.tem_semestre
    /\ dados.turmas # <<>>

\* the lines of the text of one kind, in the order written
DoTipo(kind) == SelectSeq(lp_file, LAMBDA l : l.kind = kind)

\* C12: for every placement of a section t of duration d in room s on the block
\* p1..pd, the text holds exactly d-1 cont lines of t, the k-th tying x<t>_<s>_<p1>
\* to x<t>_<s>_<p(k+1)>; exactly one turma_<t>_agendada line, over the d variables
\* of the block, with right side d; exactly one sala_<s>_uso_para_turma_<t> line,
\* over the same variables, with coefficient d on z_<s>.  No line of these three
\* kinds names a section that is not placed.
C12_RestricoesDaColocacao ==
    /\ \A t \in DOMAIN agendadas :
          LET s   == agendadas[t].sala
              b   == agendadas[t].periodos
              d   == turma_duracao(t)
              xs  == [k \in 1..d |-> <<t, s, b[k]>>]
          IN  /\ Len(b) = d
              /\ SelectSeq(DoTipo("cont"), LAMBDA l : l.vars[1][1] = t)
                    = [k \in 1..(d - 1) |->
                          [kind |-> "cont", a |-> 0, b |-> 0, c |-> 0,
                           vars |-> <<xs[1], xs[k + 1]>>, zs |-> <<>>]]
              /\ SelectSeq(DoTipo("turma_agendada"), LAMBDA l : l.a = t)
                    = <<[kind |-> "turma_agendada", a |-> t, b |-> 0, c |-> d,
                         vars |-> xs, zs |-> <<>>]>>
              /\ SelectSeq(DoTipo("sala_uso_para_turma"), LAMBDA l : l.b = t)
                    = <<[kind |-> "sala_uso_para_turma", a |-> s, b |-> t, c |-> d,
                         vars |-> xs, zs |-> <<s>>]>>
    /\ \A i \in DOMAIN lp_file :
          /\ lp_file[i].kind = "cont" => lp_file[i].vars[1][1] \in DOMAIN agendadas
          /\ lp_file[i].kind = "turma_agendada" => lp_file[i].a \in DOMAIN agendadas
          /\ lp_file[i].kind = "sala_uso_para_turma" => lp_file[i].b \in DOMAIN agendadas

\* the run ended with a section of duration 3 placed and a section, which went
\* through the search, left unplaced
C12_Witness ==
    /\ pc = "fim"
    /\ \E t \in DOMAIN agendadas : turma_duracao(t) = 3 /\ Len(agendadas[t].periodos) = 3
    /\ \E t \in Range(turma_set) : Falhada(t) /\ Procurada(t)

\* the ids of the sections of the two units of a pair
TurmasDoPar(par) ==
    {dados.turmas[i].id : i \in {j \in DOMAIN dados.turmas :
                                    dados.turmas[j].unidade_curricular_id \in {par[1], par[2]}}}

\* C13 (as claimed): once the global pass has written them, for each pair (3,5),
\* (11,13), (11,14), (11,15), (22,23) and each period p of the period table for which
\* one of the two units has a section, the text holds exactly one
\* restricao_UC<a>_UC<b>_periodo_<p> line, naming once each x<t>_<r>_<p> for every
\* section t of either unit and every room r of the room table, whether t was placed
\* or not; there is no other restricao line.
C13_RestricoesGlobais ==
    pc \in {"ordem", "conflitos", "binary", "fim"} =>
        LET pares == {<<3, 5>>, <<11, 13>>, <<11, 14>>, <<11, 15>>, <<22, 23>>}
            rs    == DoTipo("restricao")
        IN  /\ \A par \in pares : \A p \in Range(dados.periodos) :
                  LET ls == SelectSeq(rs, LAMBDA l : l.a = par[1] /\ l.b = par[2] /\ l.c = p)
                  IN  IF TurmasDoPar(par) = {}
                      THEN ls = <<>>
                      ELSE /\ Len(ls) = 1
                           /\ Range(ls[1].vars) =
                                 {<<t, r, p>> : t \in TurmasDoPar(par), r \in Range(dados.salas)}
                           /\ Len(ls[1].vars) = Cardinality(Range(ls[1].vars))
            /\ \A i \in DOMAIN rs :
                  <<rs[i].a, rs[i].b>> \in pares /\ rs[i].c \in Range(dados.periodos)

\* C13 (amended): as claimed when the room table holds a room; when it holds none,
\* the sum of a pair has no variable and the text holds no restricao line.
C13_RestricoesComSalas ==
    pc \in {"ordem", "conflitos", "binary", "fim"} =>
        LET pares == {<<3, 5>>, <<11, 13>>, <<11, 14>>, <<11, 15>>, <<22, 23>>}
            rs    == DoTipo("restricao")
        IN  /\ \A par \in pares : \A p \in Range(dados.periodos) :
                  LET ls == SelectSeq(rs, LAMBDA l : l.a = par[1] /\ l.b = par[2] /\ l.c = p)
                  IN  IF TurmasDoPar(par) = {} \/ dados.salas = <<>>
                      THEN ls = <<>>
                      ELSE /\ Len(ls) = 1
                           /\ Range(ls[1].vars) =
                                 {<<t, r, p>> : t \in TurmasDoPar(par), r \in Range(dados.salas)}
                           /\ Len(ls[1].vars) = Cardinality(Range(ls[1].vars))
            /\ \A i \in DOMAIN rs :
                  <<rs[i].a, rs[i].b>> \in pares /\ rs[i].c \in Range(dados.periodos)

\* the run ended, with a room table of two rooms, with two sections of unit 11 and one
\* of unit 13, one of them placed and the section of unit 13 left unplaced by the
\* search, and the line of the pair (11,13) for period 1 names the six variables
C13_Witness ==
    /\ pc = "fim"
    /\ Len(dados.salas) = 2
    /\ \E t1, t2, t3 \in Range(turma_set) :
          /\ t1 # t2
          /\ turma_uc(t1) = 11 /\ turma_uc(t2) = 11 /\ turma_uc(t3) = 13
          /\ t1 \in DOMAIN agendadas
          /\ Falhada(t3) /\ Procurada(t3)
    /\ \E l \in Range(DoTipo("restricao")) :
          l.a = 11 /\ l.b = 13 /\ l.c = 1 /\ Len(l.vars) = 6

\* C14 (as claimed): at the end of the run the Binary block declares, once each, every
\* variable created by a placement and every indicator z_<s> of the objective or of
\* a sala_<s>_uso_para_turma_<t> line; so the room of every placement is declared.
C14_BinaryCompleto ==
    pc = "fim" =>
        LET usados == UNION {Range(l.zs) :
                                l \in Range(DoTipo("obj")) \cup Range(DoTipo("sala_uso_para_turma"))}
        IN  /\ \A v \in variables :
                  Len(SelectSeq(DoTipo("bin_x"), LAMBDA l : l.vars = <<v>>)) = 1
            /\ \A z \in usados :
                  Len(SelectSeq(DoTipo("bin_z"), LAMBDA l : l.zs = <<z>>)) = 1
            /\ \A t \in DOMAIN agendadas :
                  \E l \in Range(DoTipo("bin_z")) : l.zs = <<agendadas[t].sala>>

\* C15 (as claimed): when the run has failed after the output file was opened, the
\* file does not hold a truncated model: it holds nothing, or a text that ends with
\* the Binary block and the End line.
C15_SemModeloTruncado ==
    (pc = "erro" /\ lp_estado # "inexistente") =>
        \/ lp_file = <<>>
        \/ /\ lp_file[Len(lp_file)].kind = "end"
           /\ DoTipo("binary") # <<>>

\* the positions of the '_' of a name
Sublinhados(name) == {k \in DOMAIN name : name[k] = 95}

\* the element is an x variable of value 1 whose name is x<section>_<room>_<period>,
\* with an integer period and the integer id of a section of the sections relation
BemFormada(e) ==
    /\ e.name # <<>> /\ e.name[1] = 120
    /\ float_ok(e.value) /\ float_igual_1(e.value)
    /\ Cardinality(Sublinhados(e.name)) = 2
    /\ LET i == Min(Sublinhados(e.name))
           j == CHOOSE k \in Sublinhados(e.name) : k # i
       IN  /\ int_ok(SubSeq(e.name, j + 1, Len(e.name)))
           /\ int_ok(SubSeq(e.name, 2, i - 1))
           /\ \E r \in DOMAIN dados.turmas :
                  dados.turmas[r].id = int(SubSeq(e.name, 2, i - 1))

\* the element is a z_ variable of value 1
SalaUsada(e) ==
    /\ Len(e.name) >= 2 /\ e.name[1] = 122 /\ e.name[2] = 95
    /\ float_ok(e.value) /\ float_igual_1(e.value)

\* the placement a well-formed element stands for
ColocacaoDe(e) ==
    LET i == Min(Sublinhados(e.name))
        j == CHOOSE k \in Sublinhados(e.name) : k # i
        r == Min({k \in DOMAIN dados.turmas :
                     dados.turmas[k].id = int(SubSeq(e.name, 2, i - 1))})
    IN  [turma_id |-> SubSeq(e.name, 2, i - 1),
         unidade_curricular_id |-> dados.turmas[r].unidade_curricular_id,
         tipo_aula_id |-> dados.turmas[r].tipo_aula_id,
         turma_label_id |-> dados.turmas[r].turma_label_id,
         sala_id |-> SubSeq(e.name, i + 1, j - 1),
         periodo_id |-> int(SubSeq(e.name, j + 1, Len(e.name)))]

\* what the first k elements of the document should have produced
ColocacoesAte(k) ==
    LET bons == SelectSeq(SubSeq(solucao.variaveis, 1, k), BemFormada)
    IN  [n \in DOMAIN bons |-> ColocacaoDe(bons[n])]

SalasAte(k) ==
    {LET resto == SubSeq(solucao.variaveis[n].name, 3, Len(solucao.variaveis[n].name))
     IN  IF Sublinhados(resto) = {} THEN resto
         ELSE SubSeq(resto, 1, Min(Sublinhados(resto)) - 1) :
        n \in {m \in 1..k : SalaUsada(solucao.variaveis[m])}}

\* C16 (as claimed): the pass is never left because of one element: once both
\* files are read it goes through every element in document order, and after k
\* elements the list holds, in order, exactly the placements of the well-formed x
\* elements of value 1 among them that name a known section, and the room set
\* exactly the rooms of the z_ elements of value 1; the function returns only after
\* the last element.
C16_EntradasToleradas ==
    /\ vi >= 1 => pc # "erro"
    /\ (pc \in {"leitor", "lido"} /\ vi >= 1) =>
          /\ scheduled_classes = ColocacoesAte(vi - 1)
          /\ used_rooms = SalasAte(vi - 1)
          /\ vi <= Len(solucao.variaveis) + 1
          /\ pc = "lido" => vi = Len(solucao.variaveis) + 1

\* C17 (as claimed): at the end of the run, the assignment that gives 1 to the
\* variables created by the placements and 0 to every other variable satisfies every
\* restricao_UC<a>_UC<b>_periodo_<p> line: at most one of the variables the line
\* sums is a created variable.
C17_RestricoesSatisfeitas ==
    pc = "fim" =>
        \A l \in Range(DoTipo("restricao")) :
            Cardinality({k \in DOMAIN l.vars : l.vars[k] \in variables}) <= 1

\* C18: every entry of docente_periodo_vars and of sala_periodo_vars has its own key
\* and holds exactly one variable, so no docente_<d>_periodo_<p>_conflito and no
\* sala_<s>_periodo_<p>_conflito line is ever written and no entry reaches the
\* filter of the units 24 and 25.
C18_SemConflitos ==
    /\ \A d \in {docente_periodo_vars, sala_periodo_vars} :
          /\ \A i \in DOMAIN d : Len(d[i].vars) = 1
          /\ \A i, j \in DOMAIN d : d[i].key = d[j].key => i = j
    /\ \A i \in DOMAIN lp_file :
          lp_file[i].kind \notin {"docente_conflito", "sala_conflito"}

\* the run ended with two sections of one teacher placed in one room, one of them
\* of unit 24
C18_Witness ==
    /\ pc = "fim"
    /\ \E t1, t2 \in DOMAIN agendadas :
          /\ t1 # t2
          /\ turma_docente(t1) = turma_docente(t2)
          /\ agendadas[t1].sala = agendadas[t2].sala
          /\ turma_uc(t1) = 24
          /\ Len(docente_periodo_vars) >= 2 /\ Len(sala_periodo_vars) >= 2

\* C19 (as claimed): at the end of the run no placed section of turma_label_id 1
\* shares a period with another placed section of a unit of the same semester,
\* whichever of the two was processed first.
C19_SemestreNoFinal ==
    pc = "fim" =>
        \A t1, t2 \in DOMAIN agendadas :
            (/\ t1 # t2
             /\ turma_label(t1) = 1
             /\ SemestreDe(t1) = SemestreDe(t2))
            => Bloco(t1) \cap Bloco(t2) = {}

====
